---------------------------- MODULE Spec2Model ----------------------------
(***************************************************************************)
(* tmpl.cgi: request resolution and response commit.                       *)
(*                                                                         *)
(* The repository holds three request handlers:                            *)
(*   "lazy"    pkg/server (unnamed/part_003) on top of Config.FindTemplate *)
(*             (pkg/config/config.go): patterns are compiled and templates *)
(*             are loaded for every request;                               *)
(*   "preload" pkg/server/server.go:1-256: patterns and templates are      *)
(*             loaded by New, the template is executed into a buffer;      *)
(*   "stream"  pkg/server/server.go:258-426: as "preload", but the         *)
(*             template is executed straight into the response writer.     *)
(* and the error reporter of pkg/debug (unnamed/part_002).                 *)
(*                                                                         *)
(* Text is a sequence of atoms (a character or a fixed chunk of text), so  *)
(* that matching, escaping and containment are computed, not assumed.      *)
(***************************************************************************)
EXTENDS Integers, Sequences, FiniteSets, TLC

VARIABLES
    cfg,                  \* the configuration handed to New (config.Config)
    srv,                  \* the server object returned by New, if any
    debugGloballyEnabled, \* package variable of pkg/debug
    envDebug,             \* value of the TMPL_CGI_DEBUG environment variable
    w,                    \* the real response writer of the request in hand
    last,                 \* what the most recent operation did
    genericSeen,          \* responses the reporter committed with debug off
    crw,                  \* a response capture of pkg/cgicapture
    hist,                 \* the calls made on the capture, in order
    ret,                  \* what the most recent call on the capture returned
    proc                  \* the process of cmd main: position, standard output, log

serverVars  == <<cfg, srv, debugGloballyEnabled, envDebug, w, last, genericSeen>>
captureVars == <<crw, hist, ret>>

vars == <<cfg, srv, debugGloballyEnabled, envDebug, w, last, genericSeen,
          crw, hist, ret, proc>>

\* no process of cmd main is running
NoProcess ==
    [pc |-> "none", gateway |-> "", configEnv |-> "", fileExists |-> TRUE,
     stage |-> <<>>, err |-> <<>>, failed |-> "", stdout |-> <<>>, log |-> <<>>,
     exit |-> -1, entered |-> {}, handlers |-> <<>>]

---------------------------------------------------------------------------
(* Bounds *)

MaxRules == 2

\* calls made on one response capture
MaxCalls == 4

---------------------------------------------------------------------------
(* Text *)

\* strings.Contains: needle occurs in hay as a contiguous run
Contains(hay, needle) ==
    \E i \in 0..Len(hay) :
        /\ i + Len(needle) <= Len(hay)
        /\ \A k \in 1..Len(needle) : hay[i + k] = needle[k]

\* strings.HasPrefix
HasPrefix(s, p) ==
    /\ Len(p) <= Len(s)
    /\ \A k \in 1..Len(p) : s[k] = p[k]

RECURSIVE Flatten(_)
Flatten(ss) == IF ss = <<>> THEN <<>> ELSE Head(ss) \o Flatten(Tail(ss))

\* the escaping html/template applies to a value printed in element content
HTMLEscapeAtom(a) ==
    CASE a = "&"  -> "&amp;"
      [] a = "<"  -> "&lt;"
      [] a = ">"  -> "&gt;"
      [] a = "\"" -> "&#34;"
      [] a = "'"  -> "&#39;"
      [] a = "+"  -> "&#43;"
      [] OTHER    -> a

HTMLEscape(s) == [i \in 1..Len(s) |-> HTMLEscapeAtom(s[i])]

---------------------------------------------------------------------------
(* Regular expressions (the subset the configurations below use: literal   *)
(* atoms, an optional leading "^", and "[" which opens a character class   *)
(* that is never closed)                                                   *)

\* regexp.Compile returns a nil error
Compiles(pattern) == \A i \in 1..Len(pattern) : pattern[i] # "["

\* (*Regexp).MatchString of a compiled pattern: unanchored unless "^" leads
MatchString(pattern, uri) ==
    IF pattern # <<>> /\ Head(pattern) = "^"
    THEN HasPrefix(uri, Tail(pattern))
    ELSE Contains(uri, pattern)

PatApi     == <<"^", "/", "api", "/">>
PatSlash   == <<"/">>
PatDefault == <<"default">>
PatBad     == <<"[", "api">>

Patterns == {PatApi, PatSlash, PatDefault, PatBad}

UriApi     == <<"/", "api", "/", "users">>
UriHome    == <<"/", "home", "?", "a", "&", "b">>

UriPath    == <<"/", "home">>

---------------------------------------------------------------------------
(* Template files on disk, and what the template engine does with them     *)

NilTemplate == "nil"

\* files that exist and parse; "missing.html" does not exist, and "" resolves
\* to the configuration directory, which cannot be read as a file
ParsableFiles == {"a.html", "b.html", "bad.html", "api.html", "sprig.html"}

\* files whose template calls a function of sprig.FuncMap(), such as upper
SprigFiles == {"sprig.html"}

RuleFiles    == {"a.html", "bad.html"}
DefaultFiles == {"", "b.html", "missing.html"}

ParseError(filename) == <<"open ", filename, ": cannot read">>

ExecError == <<"executing ", "bad.html", " at ", "<", ".Foo", ">", ": nil pointer">>

\* (*Template).Execute(wr, data): the bytes written to wr, and the error.
\* "bad.html" writes its first bytes and then fails on a field of the data;
\* "api.html" indexes the path segments after /api and fails on other paths.
Execute(tmpl, data) ==
    CASE tmpl = "a.html"   -> [out |-> <<"A:">> \o HTMLEscape(data.RequestURI), err |-> <<>>]
      [] tmpl = "b.html"   -> [out |-> <<"B:">> \o HTMLEscape(data.RequestURI), err |-> <<>>]
      [] tmpl = "bad.html" -> [out |-> <<"BAD:", "partial">>, err |-> ExecError]
      [] tmpl = "sprig.html" ->
             [out |-> <<"SPRIG:">> \o HTMLEscape(data.RequestURI), err |-> <<>>]
      [] tmpl = "api.html" ->
             IF HasPrefix(data.RequestURI, <<"/", "api">>)
             THEN [out |-> <<"API:">> \o HTMLEscape(data.RequestURI), err |-> <<>>]
             ELSE [out |-> <<"API:">>,
                   err |-> <<"executing ", "api.html", ": index out of range">>]
      [] OTHER             -> [out |-> <<>>, err |-> <<"nil template">>]

---------------------------------------------------------------------------
(* Configuration *)

Rules == [Pattern : Patterns, Template : RuleFiles]

RECURSIVE SeqsUpTo(_, _)
SeqsUpTo(S, n) ==
    IF n = 0 THEN {<<>>}
    ELSE LET shorter == SeqsUpTo(S, n - 1)
         IN  shorter \cup {Append(q, x) : q \in {r \in shorter : Len(r) = n - 1}, x \in S}

Configs ==
    [DefaultTemplate : DefaultFiles,
     Templates       : SeqsUpTo(Rules, MaxRules),
     Data            : {"blob"}]

\* Config.LoadTemplate: the template parsed from the file, or an error
LoadTemplate(c, filename) ==
    IF filename \in ParsableFiles
    THEN [tmpl |-> filename, err |-> <<>>]
    ELSE [tmpl |-> NilTemplate, err |-> <<"failed to parse: ">> \o ParseError(filename)]

CompileError(pattern) == <<"compiling regexp: ", "missing closing ]">>

\* FindTemplate that compiles every remaining pattern before it matches any
RECURSIVE FindTemplateFrom_CompileFirst(_, _, _)
FindTemplateFrom_CompileFirst(c, uri, i) ==
    IF \E k \in i..Len(c.Templates) : ~Compiles(c.Templates[k].Pattern)
    THEN [tmpl |-> NilTemplate, err |-> CompileError(<<>>)]
    ELSE IF i > Len(c.Templates)
         THEN LoadTemplate(c, c.DefaultTemplate)
         ELSE IF MatchString(c.Templates[i].Pattern, uri)
              THEN LoadTemplate(c, c.Templates[i].Template)
              ELSE FindTemplateFrom_CompileFirst(c, uri, i + 1)

\* Config.FindTemplate, the loop body from rule i on
RECURSIVE FindTemplateFrom(_, _, _)
FindTemplateFrom(c, uri, i) ==
    IF i > Len(c.Templates)
    THEN LoadTemplate(c, c.DefaultTemplate)
    ELSE LET t == c.Templates[i]
         IN  IF ~Compiles(t.Pattern)
             THEN [tmpl |-> NilTemplate, err |-> CompileError(t.Pattern)]
             ELSE IF MatchString(t.Pattern, uri)
                  THEN LoadTemplate(c, t.Template)
                  ELSE FindTemplateFrom(c, uri, i + 1)

Config_FindTemplate(c, uri) == FindTemplateFrom(c, uri, 1)

---------------------------------------------------------------------------
(* The preloading server (pkg/server/server.go) *)

NoServer == [kind |-> "none"]

\* key of the default template in CGIServer.templates
DefaultKey == <<"default">>

\* config.CompilePatterns: every pattern compiled, or the first error
CompilePatterns(templates) ==
    IF \A i \in 1..Len(templates) : Compiles(templates[i].Pattern)
    THEN [patterns |-> [i \in 1..Len(templates) |-> templates[i].Pattern], err |-> <<>>]
    ELSE [patterns |-> <<>>, err |-> <<"invalid pattern">>]

\* CGIServer.loadTemplate
loadTemplate(templatePath) ==
    IF templatePath \in ParsableFiles
    THEN [tmpl |-> templatePath, err |-> <<>>]
    ELSE [tmpl |-> NilTemplate,
          err  |-> <<"failed to parse template file ">> \o ParseError(templatePath)]

\* m[key] = tmpl on a Go map
MapSet(m, key, tmpl) ==
    [k \in DOMAIN m \cup {key} |-> IF k = key THEN tmpl ELSE m[k]]

\* m[key] on a Go map: the zero value (nil) for an absent key
MapGet(m, key) == IF key \in DOMAIN m THEN m[key] ELSE NilTemplate

EmptyMap == [k \in {} |-> NilTemplate]

\* loadTemplates skipping the rules whose template file cannot be loaded
RECURSIVE loadRuleTemplates_SkipBroken(_, _, _)
loadRuleTemplates_SkipBroken(c, m, i) ==
    IF i > Len(c.Templates)
    THEN [templates |-> m, err |-> <<>>]
    ELSE LET r == loadTemplate(c.Templates[i].Template)
         IN  IF r.err # <<>>
             THEN loadRuleTemplates_SkipBroken(c, m, i + 1)
             ELSE loadRuleTemplates_SkipBroken(
                      c, MapSet(m, c.Templates[i].Pattern, r.tmpl), i + 1)

\* CGIServer.loadTemplates, the loop over the rules from rule i on
RECURSIVE loadRuleTemplates(_, _, _)
loadRuleTemplates(c, m, i) ==
    IF i > Len(c.Templates)
    THEN [templates |-> m, err |-> <<>>]
    ELSE LET r == loadTemplate(c.Templates[i].Template)
         IN  IF r.err # <<>>
             THEN [templates |-> m, err |-> <<"failed to load template: ">> \o r.err]
             ELSE loadRuleTemplates(c, MapSet(m, c.Templates[i].Pattern, r.tmpl), i + 1)

\* CGIServer.loadTemplates
loadTemplates(c) ==
    IF c.DefaultTemplate # ""
    THEN LET r == loadTemplate(c.DefaultTemplate)
         IN  IF r.err # <<>>
             THEN [templates |-> EmptyMap,
                   err |-> <<"failed to load default template: ">> \o r.err]
             ELSE loadRuleTemplates(c, MapSet(EmptyMap, DefaultKey, r.tmpl), 1)
    ELSE loadRuleTemplates(c, EmptyMap, 1)

\* server.New(configPath) of the preloading server: loadConfig, loadTemplates
NewPreloaded(kind, c) ==
    LET p == CompilePatterns(c.Templates)
        t == loadTemplates(c)
    IN  IF p.err # <<>>
        THEN [kind |-> "failed", err |-> <<"failed to load config: ">> \o p.err]
        ELSE IF t.err # <<>>
             THEN [kind |-> "failed", err |-> <<"failed to load templates: ">> \o t.err]
             ELSE [kind |-> kind, config |-> c, templates |-> t.templates,
                   patterns |-> p.patterns]

\* CGIServer.FindTemplate of the preloading server, the loop from pattern i on
RECURSIVE serverFindFrom(_, _, _)
serverFindFrom(s, requestURI, i) ==
    IF i > Len(s.patterns)
    THEN IF MapGet(s.templates, DefaultKey) # NilTemplate
         THEN [tmpl |-> MapGet(s.templates, DefaultKey),
               templateName |-> s.config.DefaultTemplate]
         ELSE [tmpl |-> NilTemplate, templateName |-> ""]
    ELSE IF MatchString(s.patterns[i], requestURI)
         THEN [tmpl |-> MapGet(s.templates, s.config.Templates[i].Pattern),
               templateName |-> s.config.Templates[i].Template]
         ELSE serverFindFrom(s, requestURI, i + 1)

CGIServer_FindTemplate(s, requestURI) == serverFindFrom(s, requestURI, 1)

\* server.New(cfg) of the lazy server: the configuration is copied, nothing
\* is compiled or loaded
NewLazy(c) == [kind |-> "lazy", config |-> c]

---------------------------------------------------------------------------
(* The real response writer (net/http): the status and the headers are     *)
(* fixed by the first WriteHeader or Write, later WriteHeader calls and    *)
(* later header changes do not reach the client                            *)

StatusOK                  == 200
StatusNotFound            == 404
StatusInternalServerError == 500

ContentType  == "Content-Type"
HeaderNames  == {ContentType, "X-Content-Type-Options"}
NoHeaders    == [h \in HeaderNames |-> ""]
TextHTML     == "text/html; charset=utf-8"
TextPlain    == "text/plain; charset=utf-8"

NewWriter ==
    [header |-> NoHeaders, wroteHeader |-> FALSE, code |-> 0, sent |-> NoHeaders,
     body |-> <<>>, log |-> <<>>]

\* w.Header().Set(key, value)
HeaderSet(ww, key, value) ==
    [ww EXCEPT !.header[key] = value, !.log = Append(@, <<"Header", key, value>>)]

\* the status line and the headers go out
commitHeader(ww, code) ==
    IF ww.wroteHeader THEN ww
    ELSE [ww EXCEPT !.wroteHeader = TRUE, !.code = code, !.sent = ww.header]

\* w.WriteHeader(code)
WriteHeader(ww, code) ==
    [commitHeader(ww, code) EXCEPT !.log = Append(@, <<"WriteHeader", code>>)]

\* w.Write(bytes)
Write(ww, bytes) ==
    [commitHeader(ww, StatusOK) EXCEPT !.body = @ \o bytes,
                                       !.log = Append(@, <<"Write", bytes>>)]

\* http.Error(w, error, code)
HttpError(ww, error, code) ==
    Write(WriteHeader(HeaderSet(HeaderSet(ww, ContentType, TextPlain),
                                "X-Content-Type-Options", "nosniff"), code),
          error \o <<"\n">>)

\* what the client receives
Committed(ww) == [code |-> ww.code, header |-> ww.sent, body |-> ww.body]

---------------------------------------------------------------------------
(* The error reporter (pkg/debug) *)

EnvValues ==
    {"", "true", "TRUE", "True", "yes", "YES", "1", "false", "no", "0", "random"}

\* strings.ToLower on the values above
ToLower(s) ==
    CASE s = "TRUE"  -> "true"
      [] s = "True"  -> "true"
      [] s = "YES"   -> "yes"
      [] OTHER       -> s

\* IsDebugEnabled comparing the variable without lower-casing it
IsDebugEnabled_CaseSensitive(flag, env) ==
    IF flag THEN TRUE
    ELSE env = "true" \/ env = "yes" \/ env = "1"

\* IsDebugEnabled letting a false-like value of the variable switch the flag off
IsDebugEnabled_EnvOverrides(flag, env) ==
    LET debug == ToLower(env)
    IN  IF debug \in {"false", "no", "0"} THEN FALSE
        ELSE flag \/ debug = "true" \/ debug = "yes" \/ debug = "1"

\* debug.IsDebugEnabled
IsDebugEnabled(flag, env) ==
    IF flag THEN TRUE
    ELSE LET debug == ToLower(env)
         IN  debug = "true" \/ debug = "yes" \/ debug = "1"

\* a debug template that prints the labels and not the values
debugSection_LabelOnly(m) ==
    <<"<div class=error-label>">> \o HTMLEscape(m[1]) \o <<":">>
        \o <<"<div class=error-value>">> \o <<"</div>">>

\* one {{range .}} block of the debug template
debugSection(m) ==
    <<"<div class=error-label>">> \o HTMLEscape(m[1]) \o <<":">>
        \o <<"<div class=error-value>">> \o HTMLEscape(m[2]) \o <<"</div>">>

\* the debug template executed on the messages
debugPage(messages) ==
    <<"<!DOCTYPE html>", "Debug Mode Enabled", "Runtime Error">>
        \o Flatten([i \in 1..Len(messages) |-> debugSection(messages[i])])
        \o <<"</html>">>

\* the loop of the plain-text fallback, from message i on
RECURSIVE writeMessages(_, _, _)
writeMessages(ww, messages, i) ==
    IF i > Len(messages) THEN ww
    ELSE writeMessages(Write(ww, messages[i][1] \o <<": ">> \o messages[i][2] \o <<"\n">>),
                       messages, i + 1)

\* RenderDebugError without its WriteHeader calls: the first Write sends 200
RenderDebugError_NoStatus(ww, messages, renderErr) ==
    IF renderErr # <<>>
    THEN writeMessages(
             Write(HeaderSet(ww, ContentType, TextPlain),
                   <<"Debug template error: ">> \o renderErr \o <<"\n\nMessages:\n">>),
             messages, 1)
    ELSE Write(HeaderSet(ww, ContentType, TextHTML), debugPage(messages))

\* RenderDebugError that executes the debug template straight into w: the
\* page written before the failure is in w when the fallback starts
RenderDebugError_Streamed(ww, messages, renderErr) ==
    IF renderErr # <<>>
    THEN writeMessages(
             Write(WriteHeader(HeaderSet(Write(ww, <<"<!DOCTYPE html>",
                                                     "Debug Mode Enabled">>),
                                         ContentType, TextPlain),
                               StatusInternalServerError),
                   <<"Debug template error: ">> \o renderErr \o <<"\n\nMessages:\n">>),
             messages, 1)
    ELSE Write(WriteHeader(HeaderSet(ww, ContentType, TextHTML),
                           StatusInternalServerError),
               debugPage(messages))

\* debug.RenderDebugError; renderErr is the error of parsing and executing
\* the debug template (<<>> for nil)
RenderDebugError(ww, messages, renderErr) ==
    IF renderErr # <<>>
    THEN writeMessages(
             Write(WriteHeader(HeaderSet(ww, ContentType, TextPlain),
                               StatusInternalServerError),
                   <<"Debug template error: ">> \o renderErr \o <<"\n\nMessages:\n">>),
             messages, 1)
    ELSE Write(WriteHeader(HeaderSet(ww, ContentType, TextHTML),
                           StatusInternalServerError),
               debugPage(messages))

GenericPage ==
    <<"<!DOCTYPE HTML PUBLIC>", "<title>", "500 ", "Server Error", "</title>",
      "<h1>", "Server Error", "</h1>",
      "<p>The server encountered an error processing this request.</p>">>

\* WriteDebugError that only logs the failure and writes no response
WriteDebugError_LogOnly(ww, messages, flag, env, renderErr) == ww

\* WriteDebugError whose production page appends the diagnostics
WriteDebugError_Leaky(ww, messages, flag, env, renderErr) ==
    IF IsDebugEnabled(flag, env)
    THEN RenderDebugError(ww, messages, renderErr)
    ELSE Write(WriteHeader(HeaderSet(ww, ContentType, TextHTML),
                           StatusInternalServerError),
               GenericPage \o Flatten([i \in 1..Len(messages) |-> messages[i][2]]))

\* debug.WriteDebugError
WriteDebugError(ww, messages, flag, env, renderErr) ==
    IF IsDebugEnabled(flag, env)
    THEN RenderDebugError(ww, messages, renderErr)
    ELSE Write(WriteHeader(HeaderSet(ww, ContentType, TextHTML),
                           StatusInternalServerError),
               GenericPage)

\* which of the reporter's three paths a call takes
ReporterPath(flag, env, renderErr) ==
    IF ~IsDebugEnabled(flag, env) THEN "generic"
    ELSE IF renderErr # <<>> THEN "fallback" ELSE "debug"

---------------------------------------------------------------------------
(* Requests and request handlers *)

ReqApi     == [RequestURI |-> UriApi,     URLPath |-> UriApi]
ReqHome    == [RequestURI |-> UriHome,    URLPath |-> UriPath]
ReqNoURI   == [RequestURI |-> <<>>,       URLPath |-> UriPath]

Requests == {ReqApi, ReqHome, ReqNoURI}

\* outcomes of parsing and executing the debug template
RenderOutcomes == {<<>>, <<"template: debug-error: execution failed">>}

\* getRequestURI that always takes the decoded URL path
getRequestURI_PathOnly(r) == r.URLPath

\* getRequestURI / GetRequestURI
getRequestURI(r) == IF r.RequestURI = <<>> THEN r.URLPath ELSE r.RequestURI

NoData == [RequestURI |-> <<>>]

NoRequest == [RequestURI |-> <<>>, URLPath |-> <<>>]

Idle ==
    [op |-> "init", req |-> NoRequest, uri |-> <<>>, tmpl |-> NilTemplate, name |-> "",
     rerr |-> <<>>,
     xerr |-> <<>>, out |-> <<>>, reporter |-> "none", data |-> NoData,
     messages |-> <<>>, flag |-> FALSE, env |-> "", enabled |-> FALSE]

\* ServeHTTP of the lazy server writing the body before it sets Content-Type
ServeLazy_HeaderLate(s, r, flag, env, renderErr) ==
    LET requestURI == getRequestURI(r)
        found      == Config_FindTemplate(s.config, requestURI)
        data       == [RequestURI |-> requestURI, Request |-> r, Data |-> s.config.Data]
        ex         == Execute(found.tmpl, data)
        base       == [Idle EXCEPT !.op = "ServeHTTP", !.req = r, !.uri = requestURI,
                                   !.tmpl = found.tmpl, !.rerr = found.err,
                                   !.flag = flag, !.env = env]
        msgs       == << << <<"Request URI">>, requestURI >>,
                         << <<"Error">>, found.err \o ex.err >> >>
    IN  IF found.err # <<>> \/ ex.err # <<>>
        THEN [w    |-> WriteDebugError(NewWriter, msgs, flag, env, renderErr),
              last |-> [base EXCEPT !.xerr = IF found.err = <<>> THEN ex.err ELSE <<>>,
                                    !.messages = msgs,
                                    !.reporter = ReporterPath(flag, env, renderErr)]]
        ELSE [w    |-> HeaderSet(Write(NewWriter, ex.out), ContentType, TextHTML),
              last |-> [base EXCEPT !.out = ex.out, !.data = data]]

\* CGIServer.ServeHTTP of the lazy server: the writer after the call, and
\* what the handler did
ServeLazy(s, r, flag, env, renderErr) ==
    LET requestURI == getRequestURI(r)
        found      == Config_FindTemplate(s.config, requestURI)
        data       == [RequestURI |-> requestURI, Request |-> r, Data |-> s.config.Data]
        ex         == Execute(found.tmpl, data)
        base       == [Idle EXCEPT !.op = "ServeHTTP", !.req = r, !.uri = requestURI,
                                   !.tmpl = found.tmpl, !.rerr = found.err,
                                   !.flag = flag, !.env = env]
        loadMsgs   == << << <<"Request URI">>, requestURI >>,
                         << <<"Error loading template">>, found.err >> >>
        execMsgs   == << << <<"Request URI">>, requestURI >>,
                         << <<"Error executing template">>, ex.err >> >>
    IN  IF found.err # <<>>
        THEN [w    |-> WriteDebugError(NewWriter, loadMsgs, flag, env, renderErr),
              last |-> [base EXCEPT !.messages = loadMsgs,
                                    !.reporter = ReporterPath(flag, env, renderErr)]]
        ELSE IF ex.err # <<>>
             THEN [w    |-> WriteDebugError(NewWriter, execMsgs, flag, env, renderErr),
                   last |-> [base EXCEPT !.xerr = ex.err, !.out = ex.out, !.data = data,
                                         !.messages = execMsgs,
                                         !.reporter = ReporterPath(flag, env, renderErr)]]
             ELSE [w    |-> Write(HeaderSet(NewWriter, ContentType, TextHTML), ex.out),
                   last |-> [base EXCEPT !.out = ex.out, !.data = data]]

\* CGIServer.ServeHTTP of the preloading server (server.go:107-151)
ServePreload(s, r, flag, env, renderErr) ==
    LET requestURI == getRequestURI(r)
        found      == CGIServer_FindTemplate(s, requestURI)
        data       == [RequestURI |-> requestURI, Request |-> r]
        ex         == Execute(found.tmpl, data)
        base       == [Idle EXCEPT !.op = "ServeHTTP", !.req = r, !.uri = requestURI,
                                   !.tmpl = found.tmpl, !.name = found.templateName,
                                   !.flag = flag, !.env = env]
        w1         == HeaderSet(NewWriter, ContentType, TextHTML)
        execMsgs   == << << <<"Template Name">>, <<found.templateName>> >>,
                         << <<"Request URI">>, requestURI >>,
                         << <<"Error">>, ex.err >> >>
    IN  IF found.tmpl = NilTemplate
        THEN [w    |-> HttpError(NewWriter, <<"No template configured for this request">>,
                                 StatusNotFound),
              last |-> base]
        ELSE IF ex.err # <<>>
             THEN IF IsDebugEnabled(flag, env)
                  THEN [w    |-> RenderDebugError(w1, execMsgs, renderErr),
                        last |-> [base EXCEPT !.xerr = ex.err, !.out = ex.out,
                                              !.data = data, !.messages = execMsgs,
                                              !.reporter =
                                                  ReporterPath(flag, env, renderErr)]]
                  ELSE [w    |-> Write(WriteHeader(w1, StatusInternalServerError),
                                       <<"Template execution failed">>),
                        last |-> [base EXCEPT !.xerr = ex.err, !.out = ex.out,
                                              !.data = data]]
             ELSE [w    |-> Write(w1, ex.out),
                   last |-> [base EXCEPT !.out = ex.out, !.data = data]]

\* CGIServer.ServeHTTP of the streaming server (server.go:371-398): the
\* template writes to w while it executes
ServeStream(s, r, flag, env) ==
    LET requestURI == getRequestURI(r)
        found      == CGIServer_FindTemplate(s, requestURI)
        data       == [RequestURI |-> requestURI, Request |-> r]
        ex         == Execute(found.tmpl, data)
        base       == [Idle EXCEPT !.op = "ServeHTTP", !.req = r, !.uri = requestURI,
                                   !.tmpl = found.tmpl, !.name = found.templateName,
                                   !.flag = flag, !.env = env]
        w1         == HeaderSet(NewWriter, ContentType, TextHTML)
        w2         == IF ex.out = <<>> THEN w1 ELSE Write(w1, ex.out)
    IN  IF found.tmpl = NilTemplate
        THEN [w    |-> HttpError(NewWriter, <<"No template configured for this request">>,
                                 StatusNotFound),
              last |-> base]
        ELSE IF ex.err # <<>>
             THEN [w    |-> HttpError(w2, <<"Template execution failed">>,
                                      StatusInternalServerError),
                   last |-> [base EXCEPT !.xerr = ex.err, !.out = ex.out, !.data = data]]
             ELSE [w    |-> w2,
                   last |-> [base EXCEPT !.out = ex.out, !.data = data]]

\* the diagnostics the reporter was given with debug mode off, each with the
\* response it committed
Seen(seen, res) ==
    IF res.last.reporter = "generic"
    THEN seen \cup {[messages |-> res.last.messages, response |-> Committed(res.w)]}
    ELSE seen

---------------------------------------------------------------------------
(* The response capture and the CGI framer (pkg/cgicapture)                *)

StatusCreated == 201

CRLF == "\r\n"

\* textproto.CanonicalMIMEHeaderKey on the header names below
CanonicalKey(key) == IF key = "content-type" THEN ContentType ELSE key

\* http.Header.Set: the name is canonicalised, the value replaces the old one
Header_Set(h, key, value) ==
    [k \in DOMAIN h \cup {CanonicalKey(key)} |->
        IF k = CanonicalKey(key) THEN value ELSE h[k]]

\* http.Header.Get: the value of the canonicalised name, "" if there is none
Header_Get(h, key) ==
    IF CanonicalKey(key) \in DOMAIN h THEN h[CanonicalKey(key)] ELSE <<>>

\* make(http.Header)
EmptyHeader == [k \in {} |-> <<>>]

newResponseCapture == [header |-> EmptyHeader, statusCode |-> StatusOK, buf |-> <<>>]

\* responseCapture.Write that keeps the last slice only
responseCapture_Write_Overwrite(c, b) ==
    [crw |-> [c EXCEPT !.buf = b], n |-> Len(b), err |-> <<>>]

\* responseCapture.Write: bytes.Buffer.Write appends and returns len(b), nil
responseCapture_Write(c, b) ==
    [crw |-> [c EXCEPT !.buf = @ \o b], n |-> Len(b), err |-> <<>>]

\* responseCapture.WriteHeader that keeps the first status, as net/http does
responseCapture_WriteHeader_FirstWins(c, statusCode) ==
    IF c.statusCode = StatusOK THEN [c EXCEPT !.statusCode = statusCode] ELSE c

\* responseCapture.WriteHeader
responseCapture_WriteHeader(c, statusCode) == [c EXCEPT !.statusCode = statusCode]

\* formatCGIOutput that drains the buffer (buf.WriteTo) while framing
formatCGIOutput_Draining(c) ==
    LET ctype == Header_Get(c.header, ContentType)
    IN  [out |-> (IF ctype # <<>>
                  THEN <<"Content-Type: ">> \o ctype \o <<CRLF>>
                  ELSE <<"Content-Type: ", "text/plain", CRLF>>)
                 \o <<CRLF>> \o c.buf,
         crw |-> [c EXCEPT !.buf = <<>>]]

\* formatCGIOutput that prints the value unconditionally
formatCGIOutput_NoDefault(c) ==
    [out |-> <<"Content-Type: ">> \o Header_Get(c.header, ContentType) \o <<CRLF>>
             \o <<CRLF>> \o c.buf,
     crw |-> c]

\* formatCGIOutput: the frame, and the capture after the call
formatCGIOutput(c) ==
    LET ctype == Header_Get(c.header, ContentType)
    IN  [out |-> (IF ctype # <<>>
                  THEN <<"Content-Type: ">> \o ctype \o <<CRLF>>
                  ELSE <<"Content-Type: ", "text/plain", CRLF>>)
                 \o <<CRLF>> \o c.buf,
         crw |-> c]

\* header names and values handlers give to Header().Set
CTypeHTML  == <<"text/html">>
CTypeJSON  == <<"application/json">>
CTypeSplit == <<"text/html", CRLF, CRLF, "<script>">>

HeaderInputs ==
    { <<ContentType, CTypeHTML>>, <<ContentType, <<>>>>, <<ContentType, CTypeSplit>>,
      <<"content-type", CTypeJSON>>, <<"X-Custom", <<"test-value">>>> }

\* byte slices handlers give to Write
WriteInputs == { <<>>, <<"Hello, ">>, <<"World!">> }

\* status codes handlers give to WriteHeader
StatusInputs == {StatusNotFound, StatusCreated}

NoReturn == [op |-> "none", n |-> 0, err |-> <<>>, out |-> <<>>,
             before |-> newResponseCapture]

CaptureIdle ==
    /\ crw = newResponseCapture
    /\ hist = <<>>
    /\ ret = NoReturn

\* capture.Header().Set(key, value)
Capture_Header_Set ==
    /\ Len(hist) < MaxCalls
    /\ \E kv \in HeaderInputs :
         /\ crw' = [crw EXCEPT !.header = Header_Set(@, kv[1], kv[2])]
         /\ hist' = Append(hist, <<"Header.Set", kv[1], kv[2]>>)
         /\ ret' = [NoReturn EXCEPT !.op = "Header.Set", !.before = crw]
    /\ UNCHANGED <<serverVars, proc>>

\* capture.Write(b)
Capture_Write ==
    /\ Len(hist) < MaxCalls
    /\ \E b \in WriteInputs :
         LET r == responseCapture_Write(crw, b)
         IN  /\ crw' = r.crw
             /\ hist' = Append(hist, <<"Write", b>>)
             /\ ret' = [NoReturn EXCEPT !.op = "Write", !.n = r.n, !.err = r.err,
                                        !.before = crw]
    /\ UNCHANGED <<serverVars, proc>>

\* capture.WriteHeader(statusCode)
Capture_WriteHeader ==
    /\ Len(hist) < MaxCalls
    /\ \E statusCode \in StatusInputs :
         /\ crw' = responseCapture_WriteHeader(crw, statusCode)
         /\ hist' = Append(hist, <<"WriteHeader", statusCode>>)
         /\ ret' = [NoReturn EXCEPT !.op = "WriteHeader", !.before = crw]
    /\ UNCHANGED <<serverVars, proc>>

\* formatCGIOutput(capture)
Capture_Format ==
    /\ Len(hist) < MaxCalls
    /\ LET r == formatCGIOutput(crw)
       IN  /\ crw' = r.crw
           /\ hist' = Append(hist, <<"formatCGIOutput", r.out>>)
           /\ ret' = [NoReturn EXCEPT !.op = "formatCGIOutput", !.out = r.out,
                                      !.before = crw]
    /\ UNCHANGED <<serverVars, proc>>

---------------------------------------------------------------------------
(* The server: construction, the debug switch, request handling *)

Init ==
    /\ cfg \in Configs
    /\ srv = NoServer
    /\ debugGloballyEnabled = FALSE
    /\ envDebug = ""
    /\ w = NewWriter
    /\ last = Idle
    /\ genericSeen = {}
    /\ CaptureIdle
    /\ proc = NoProcess

New_Lazy ==
    /\ srv = NoServer
    /\ srv' = NewLazy(cfg)
    /\ UNCHANGED <<cfg, debugGloballyEnabled, envDebug, w, last, genericSeen>>
    /\ UNCHANGED <<captureVars, proc>>

New_Preload ==
    /\ srv = NoServer
    /\ srv' = NewPreloaded("preload", cfg)
    /\ UNCHANGED <<cfg, debugGloballyEnabled, envDebug, w, last, genericSeen>>
    /\ UNCHANGED <<captureVars, proc>>

New_Stream ==
    /\ srv = NoServer
    /\ srv' = NewPreloaded("stream", cfg)
    /\ UNCHANGED <<cfg, debugGloballyEnabled, envDebug, w, last, genericSeen>>
    /\ UNCHANGED <<captureVars, proc>>

\* debug.SetDebugMode
SetDebugMode ==
    /\ debugGloballyEnabled' = TRUE
    /\ UNCHANGED <<cfg, srv, envDebug, w, last, genericSeen>>
    /\ UNCHANGED <<captureVars, proc>>

ServeHTTP_Lazy ==
    /\ srv.kind = "lazy"
    /\ \E r \in Requests, renderErr \in RenderOutcomes :
         LET res == ServeLazy(srv, r, debugGloballyEnabled, envDebug, renderErr)
         IN  /\ w' = res.w
             /\ last' = res.last
             /\ genericSeen' = Seen(genericSeen, res)
    /\ UNCHANGED <<cfg, srv, debugGloballyEnabled, envDebug>>
    /\ UNCHANGED <<captureVars, proc>>

ServeHTTP_Preload ==
    /\ srv.kind = "preload"
    /\ \E r \in Requests, renderErr \in RenderOutcomes :
         LET res == ServePreload(srv, r, debugGloballyEnabled, envDebug, renderErr)
         IN  /\ w' = res.w
             /\ last' = res.last
    /\ UNCHANGED <<cfg, srv, debugGloballyEnabled, envDebug, genericSeen>>
    /\ UNCHANGED <<captureVars, proc>>

ServeHTTP_Stream ==
    /\ srv.kind = "stream"
    /\ \E r \in Requests :
         LET res == ServeStream(srv, r, debugGloballyEnabled, envDebug)
         IN  /\ w' = res.w
             /\ last' = res.last
    /\ UNCHANGED <<cfg, srv, debugGloballyEnabled, envDebug, genericSeen>>
    /\ UNCHANGED <<captureVars, proc>>

Next ==
    \/ New_Lazy
    \/ New_Preload
    \/ New_Stream
    \/ SetDebugMode
    \/ ServeHTTP_Lazy
    \/ ServeHTTP_Preload
    \/ ServeHTTP_Stream

Spec == Init /\ [][Next]_vars

---------------------------------------------------------------------------
(* The reporter on its own: the calls the tests of pkg/debug make *)

Diagnostics ==
    { <<>>,
      << << <<"Error">>, <<"Test error">> >> >>,
      << << <<"Request URI">>, UriHome >>, << <<"Error">>, ExecError >> >> }

InitDebug ==
    /\ cfg = [DefaultTemplate |-> "b.html", Templates |-> <<>>, Data |-> "blob"]
    /\ srv = NoServer
    /\ debugGloballyEnabled = FALSE
    /\ envDebug \in EnvValues
    /\ w = NewWriter
    /\ last = Idle
    /\ genericSeen = {}
    /\ CaptureIdle
    /\ proc = NoProcess

\* os.Setenv("TMPL_CGI_DEBUG", value)
Setenv ==
    /\ \E value \in EnvValues : envDebug' = value
    /\ UNCHANGED <<cfg, srv, debugGloballyEnabled, w, last, genericSeen>>
    /\ UNCHANGED <<captureVars, proc>>

Call_IsDebugEnabled ==
    /\ last' = [Idle EXCEPT !.op = "IsDebugEnabled", !.flag = debugGloballyEnabled,
                            !.env = envDebug,
                            !.enabled = IsDebugEnabled(debugGloballyEnabled, envDebug)]
    /\ UNCHANGED <<cfg, srv, debugGloballyEnabled, envDebug, w, genericSeen>>
    /\ UNCHANGED <<captureVars, proc>>

Call_WriteDebugError ==
    /\ \E messages \in Diagnostics, renderErr \in RenderOutcomes :
         LET res == [w    |-> WriteDebugError(NewWriter, messages, debugGloballyEnabled,
                                              envDebug, renderErr),
                     last |-> [Idle EXCEPT !.op = "WriteDebugError",
                                           !.messages = messages,
                                           !.flag = debugGloballyEnabled,
                                           !.env = envDebug,
                                           !.reporter =
                                               ReporterPath(debugGloballyEnabled,
                                                            envDebug, renderErr)]]
         IN  /\ w' = res.w
             /\ last' = res.last
             /\ genericSeen' = Seen(genericSeen, res)
    /\ UNCHANGED <<cfg, srv, debugGloballyEnabled, envDebug>>
    /\ UNCHANGED <<captureVars, proc>>

Call_RenderDebugError ==
    /\ \E messages \in Diagnostics, renderErr \in RenderOutcomes :
         /\ w' = RenderDebugError(NewWriter, messages, renderErr)
         /\ last' = [Idle EXCEPT !.op = "RenderDebugError", !.messages = messages,
                                 !.flag = debugGloballyEnabled, !.env = envDebug,
                                 !.reporter = IF renderErr # <<>> THEN "fallback"
                                              ELSE "debug"]
    /\ UNCHANGED <<cfg, srv, debugGloballyEnabled, envDebug, genericSeen>>
    /\ UNCHANGED <<captureVars, proc>>

NextDebug ==
    \/ Setenv
    \/ SetDebugMode
    \/ Call_IsDebugEnabled
    \/ Call_WriteDebugError
    \/ Call_RenderDebugError

SpecDebug == InitDebug /\ [][NextDebug]_vars

---------------------------------------------------------------------------
(* Vocabulary of the properties *)

\* the values of TMPL_CGI_DEBUG that switch debug mode on, written out
Truthy == {"true", "TRUE", "True", "yes", "YES", "1"}

\* debug mode as the handler of the request in hand saw it
DebugOn(l)  == l.flag \/ l.env \in Truthy
DebugOff(l) == ~DebugOn(l)

AllCompile(rules) == \A i \in 1..Len(rules) : Compiles(rules[i].Pattern)

\* rule i matches the path (a pattern that does not compile matches nothing)
RuleMatches(rules, i, uri) ==
    Compiles(rules[i].Pattern) /\ MatchString(rules[i].Pattern, uri)

\* i is the lowest declaration index whose pattern matches the path
IsFirstMatch(rules, i, uri) ==
    /\ RuleMatches(rules, i, uri)
    /\ \A j \in 1..(i - 1) : ~RuleMatches(rules, j, uri)

NoRuleMatches(rules, uri) == \A i \in 1..Len(rules) : ~RuleMatches(rules, i, uri)

Served == last.op = "ServeHTTP"

\* the body the real writer holds after the first n calls on it
RECURSIVE BodyAt(_, _)
BodyAt(log, n) ==
    IF n = 0 THEN <<>>
    ELSE IF log[n][1] = "Write" THEN BodyAt(log, n - 1) \o log[n][2]
         ELSE BodyAt(log, n - 1)

\* some byte of the text occurs in the body
SharesByte(body, text) ==
    \E i \in 1..Len(body), k \in 1..Len(text) : body[i] = text[k]

\* a WriteHeader call made after the response was already under way
SecondResponse(log) ==
    \E i \in 1..Len(log), j \in 1..Len(log) :
        /\ i < j
        /\ log[i][1] \in {"Write", "WriteHeader"}
        /\ log[j][1] = "WriteHeader"

---------------------------------------------------------------------------
(* C1: for every rule list whose patterns compile and every request path,  *)
(* the template a request is resolved to is the template of the rule with  *)
(* the lowest declaration index whose pattern matches the path.            *)
C1_FirstMatchWins ==
    (Served /\ AllCompile(cfg.Templates)) =>
        \A i \in 1..Len(cfg.Templates) :
            IsFirstMatch(cfg.Templates, i, last.uri) =>
                last.tmpl = cfg.Templates[i].Template

(* C2: a path that matches no rule resolves to the default template when   *)
(* one is configured (and can be loaded), and to the "no template          *)
(* configured" signal - no template and no error - when none is.           *)
C2_DefaultOrNoTemplate ==
    (Served /\ AllCompile(cfg.Templates) /\ NoRuleMatches(cfg.Templates, last.uri)) =>
        IF cfg.DefaultTemplate = ""
        THEN last.tmpl = NilTemplate /\ last.rerr = <<>>
        ELSE cfg.DefaultTemplate \in ParsableFiles => last.tmpl = cfg.DefaultTemplate

(* C3: when the path matches no rule and no default template is            *)
(* configured, ServeHTTP of the lazy and of the preloading server commits  *)
(* a 404 response with the body "No template configured for this request"  *)
(* and does not call the error reporter, with debug mode on or off.        *)
C3_NotFoundWithoutReporter ==
    (/\ Served
     /\ srv.kind \in {"lazy", "preload"}
     /\ NoRuleMatches(cfg.Templates, last.uri)
     /\ cfg.DefaultTemplate = "") =>
        /\ Committed(w).code = StatusNotFound
        /\ Contains(w.body, <<"No template configured for this request">>)
        /\ last.reporter = "none"

(* C4: at every point of ServeHTTP, the bytes the real writer holds are    *)
(* nothing or one whole response, and include no byte written by a         *)
(* template execution that failed.                                         *)
C4_NoPartialOutput ==
    Served =>
        \A n \in 0..Len(w.log) :
            LET b == BodyAt(w.log, n)
            IN  /\ last.xerr # <<>> => ~SharesByte(b, last.out)
                /\ b = <<>> \/ b = w.body \/ last.reporter = "fallback"

NotFoundBody == <<"No template configured for this request", "\n">>

(* C5: every ServeHTTP call of the lazy and of the preloading server ends  *)
(* with exactly one response committed to the real writer: the rendered    *)
(* body with status 200, an error page with status 500, or the 404         *)
(* response; never none, and never a second one on top of the first.       *)
C5_ExactlyOneResponse ==
    (Served /\ srv.kind \in {"lazy", "preload"}) =>
        /\ w.wroteHeader
        /\ ~SecondResponse(w.log)
        /\ IF last.xerr # <<>> \/ last.rerr # <<>>
           THEN /\ Committed(w).code = StatusInternalServerError
                /\ w.body # <<>>
                /\ ~SharesByte(w.body, last.out)
           ELSE IF last.tmpl = NilTemplate
                THEN /\ Committed(w).code = StatusNotFound
                     /\ w.body = NotFoundBody
                ELSE /\ Committed(w).code = StatusOK
                     /\ w.body = last.out

\* a failing request of the lazy server was answered
C5_Witness ==
    /\ Served
    /\ srv.kind = "lazy"
    /\ last.xerr # <<>>
    /\ Committed(w).code = StatusInternalServerError

(* C6: when template execution fails and debug mode is off, the lazy and   *)
(* the preloading server commit status 500, Content-Type                   *)
(* "text/html; charset=utf-8" and a body that contains "Server Error" and  *)
(* does not contain the failure message.                                   *)
C6_GenericServerError ==
    (Served /\ srv.kind \in {"lazy", "preload"} /\ last.xerr # <<>> /\ DebugOff(last)) =>
        /\ Committed(w).code = StatusInternalServerError
        /\ Committed(w).header[ContentType] = TextHTML
        /\ Contains(w.body, <<"Server Error">>)
        /\ ~Contains(w.body, last.xerr)

(* C7, as stated: when template execution fails in the lazy server and     *)
(* debug mode is on, the committed response has status 500 and its body    *)
(* contains the failure message and the request path.                      *)
C7_RawDiagnostics ==
    (Served /\ srv.kind = "lazy" /\ last.xerr # <<>> /\ DebugOn(last)) =>
        /\ Committed(w).code = StatusInternalServerError
        /\ Contains(w.body, last.xerr)
        /\ Contains(w.body, last.uri)

(* C7, amended: when template execution fails in the lazy server and debug *)
(* mode is on, the committed response has status 500 and its body contains *)
(* the failure message and the request path as the reporter prints them:   *)
(* HTML-escaped on the debug page, verbatim in the plain-text fallback.    *)
C7_EscapedDiagnostics ==
    (Served /\ srv.kind = "lazy" /\ last.xerr # <<>> /\ DebugOn(last)) =>
        /\ Committed(w).code = StatusInternalServerError
        /\ IF last.reporter = "fallback"
           THEN Contains(w.body, last.xerr) /\ Contains(w.body, last.uri)
           ELSE /\ Contains(w.body, HTMLEscape(last.xerr))
                /\ Contains(w.body, HTMLEscape(last.uri))

\* the lazy server printed a path with "&" on the debug page
C7_Witness ==
    /\ Served
    /\ srv.kind = "lazy"
    /\ last.xerr # <<>>
    /\ DebugOn(last)
    /\ last.reporter = "debug"
    /\ last.uri = UriHome

(* C8: with debug mode off, the reporter commits the same status, headers  *)
(* and body whatever diagnostics it is given, so any two failing requests  *)
(* get the same response.                                                  *)
C8_GenericIndistinguishable ==
    \A a \in genericSeen, b \in genericSeen : a.response = b.response

\* two requests failed with different paths and different failure kinds
C8_Witness ==
    \E a \in genericSeen, b \in genericSeen :
        /\ a.messages[1][2] # b.messages[1][2]
        /\ a.messages[2][1] = <<"Error loading template">>
        /\ b.messages[2][1] = <<"Error executing template">>

(* C9, as stated: each of the reporter's three paths leaves the sink with  *)
(* status 500 and Content-Type "text/html; charset=utf-8".                 *)
C9_AllPathsTextHTML ==
    last.reporter # "none" =>
        /\ Committed(w).code = StatusInternalServerError
        /\ Committed(w).header[ContentType] = TextHTML
        /\ w.header[ContentType] = TextHTML

(* C9, amended: each of the reporter's three paths leaves the sink with    *)
(* status 500; the Content-Type is "text/html; charset=utf-8" on the debug *)
(* page and on the production page, and "text/plain; charset=utf-8" on the *)
(* plain-text fallback.                                                    *)
C9_StatusAndContentType ==
    last.reporter # "none" =>
        LET ctype == IF last.reporter = "fallback" THEN TextPlain ELSE TextHTML
        IN  /\ Committed(w).code = StatusInternalServerError
            /\ Committed(w).header[ContentType] = ctype
            /\ w.header[ContentType] = ctype

\* the plain-text fallback ran
C9_Witness ==
    /\ last.op = "RenderDebugError"
    /\ last.reporter = "fallback"
    /\ w.body # <<>>

(* C10: IsDebugEnabled() is true exactly when the flag is set or the       *)
(* variable is a truthy value in any letter case; a set flag wins over     *)
(* every value of the variable, and with the flag unset the values         *)
(* "false", "no", "0", "" and other strings give false.                    *)
C10_DebugEnabledMatrix ==
    last.op = "IsDebugEnabled" =>
        /\ last.enabled = (last.flag \/ last.env \in Truthy)
        /\ last.flag => last.enabled
        /\ (~last.flag /\ last.env \in {"false", "no", "0", "", "random"}) => ~last.enabled

\* the flag was set, the variable said "false", and the answer was true
C10_Witness ==
    /\ last.op = "IsDebugEnabled"
    /\ last.flag
    /\ last.env = "false"
    /\ last.enabled

---------------------------------------------------------------------------
(* The running server: CGIServer.Run serves requests while the environment *)
(* and the debug switch change around it                                   *)

InitRun ==
    /\ cfg = [DefaultTemplate |-> "missing.html",
              Templates |-> <<[Pattern |-> PatApi, Template |-> "bad.html"],
                              [Pattern |-> PatSlash, Template |-> "a.html"]>>,
              Data |-> "blob"]
    /\ srv = NoServer
    /\ debugGloballyEnabled = FALSE
    /\ envDebug \in EnvValues
    /\ w = NewWriter
    /\ last = Idle
    /\ genericSeen = {}
    /\ CaptureIdle
    /\ proc = NoProcess

NextRun ==
    \/ New_Lazy
    \/ Setenv
    \/ SetDebugMode
    \/ Call_IsDebugEnabled
    \/ ServeHTTP_Lazy

SpecRun == InitRun /\ [][NextRun]_vars

(* C11: the explicit debug flag starts false and no step resets it; once   *)
(* it is set, every later IsDebugEnabled call returns true and every later *)
(* failing request gets the debug report of the reporter, whatever value   *)
(* the environment variable takes.                                         *)
C11_FlagMonotonic ==
    /\ ~debugGloballyEnabled
    /\ [][debugGloballyEnabled => debugGloballyEnabled']_vars
    /\ [][(debugGloballyEnabled /\ last' # last) =>
              /\ last'.op = "IsDebugEnabled" => last'.enabled
              /\ last'.reporter # "generic"]_vars

\* the flag was set, the variable says "false", and a failing request still
\* got the debug page
C11_Witness ==
    /\ debugGloballyEnabled
    /\ envDebug = "false"
    /\ Served
    /\ last.xerr # <<>>
    /\ last.env = "false"
    /\ last.reporter = "debug"

---------------------------------------------------------------------------
(* A response capture on its own: the calls a handler and the framer make  *)

InitCapture ==
    /\ cfg = [DefaultTemplate |-> "b.html", Templates |-> <<>>, Data |-> "blob"]
    /\ srv = NoServer
    /\ debugGloballyEnabled = FALSE
    /\ envDebug = ""
    /\ w = NewWriter
    /\ last = Idle
    /\ genericSeen = {}
    /\ CaptureIdle
    /\ proc = NoProcess

NextCapture ==
    \/ Capture_Header_Set
    \/ Capture_Write
    \/ Capture_WriteHeader
    \/ Capture_Format

SpecCapture == InitCapture /\ [][NextCapture]_vars

\* the byte slices given to Write in the first n calls, concatenated in order
RECURSIVE Written(_, _)
Written(calls, n) ==
    IF n = 0 THEN <<>>
    ELSE IF calls[n][1] = "Write" THEN Written(calls, n - 1) \o calls[n][2]
         ELSE Written(calls, n - 1)

Framed == ret.op = "formatCGIOutput"

FirstBlankLine(out) ==
    LET at == {i \in 1..(Len(out) - 1) : out[i] = CRLF /\ out[i + 1] = CRLF}
    IN  IF at = {} THEN 0 ELSE CHOOSE i \in at : \A j \in at : i <= j

\* captures that differ from c in the status code and in another header only
SameTypeAndBody(c) ==
    {[c EXCEPT !.statusCode = s] : s \in StatusInputs \cup {StatusOK}}
    \cup {[c EXCEPT !.statusCode = s, !.header = Header_Set(@, "X-Custom", <<"other">>)] :
             s \in StatusInputs \cup {StatusOK}}

(* C13: the frame of every capture has one header line, the Content-Type   *)
(* line, and one blank line before the body: the header section ends at    *)
(* the first CRLF CRLF of the output and what follows it is the body; the  *)
(* status code and the other headers of the capture do not change the      *)
(* frame.                                                                  *)
C13_OneHeaderLine ==
    Framed =>
        LET i == FirstBlankLine(ret.out)
        IN  /\ i > 0
            /\ Head(ret.out) = "Content-Type: "
            /\ \A k \in 1..(i - 1) : ret.out[k] # CRLF
            /\ SubSeq(ret.out, i + 2, Len(ret.out)) = ret.before.buf
            /\ \A c \in SameTypeAndBody(ret.before) : formatCGIOutput(c).out = ret.out

(* C14: framing the same capture twice gives the same bytes, and framing   *)
(* leaves the headers, the status code and the body of the capture as they *)
(* were.                                                                   *)
C14_FramingIdempotent ==
    /\ Framed => crw = ret.before
    /\ \A n \in 1..(Len(hist) - 1) :
           (hist[n][1] = "formatCGIOutput" /\ hist[n + 1][1] = "formatCGIOutput") =>
               hist[n][2] = hist[n + 1][2]

\* a capture with a header and a body was framed twice in a row
C14_Witness ==
    /\ Len(hist) = 4
    /\ hist[3][1] = "formatCGIOutput"
    /\ hist[4][1] = "formatCGIOutput"
    /\ crw.buf # <<>>
    /\ Header_Get(crw.header, ContentType) = CTypeHTML

(* C15: after any sequence of calls the body is the concatenation of the   *)
(* byte slices given to Write, in call order; a Write returns the length   *)
(* of its argument and no error and leaves the status code and the headers *)
(* unchanged.                                                              *)
C15_WritesConcatenate ==
    /\ crw.buf = Written(hist, Len(hist))
    /\ ret.op = "Write" =>
           /\ ret.n = Len(hist[Len(hist)][2])
           /\ ret.err = <<>>
           /\ crw.buf = ret.before.buf \o hist[Len(hist)][2]
           /\ crw.statusCode = ret.before.statusCode
           /\ crw.header = ret.before.header

\* two slices were written after the status and a header were set
C15_Witness ==
    /\ ret.op = "Write"
    /\ crw.buf = <<"Hello, ", "World!">>
    /\ crw.statusCode = StatusNotFound
    /\ crw.header # EmptyHeader

\* the argument of the most recent WriteHeader among the first n calls, 200
\* if there is none
RECURSIVE LastStatus(_, _)
LastStatus(calls, n) ==
    IF n = 0 THEN StatusOK
    ELSE IF calls[n][1] = "WriteHeader" THEN calls[n][2]
         ELSE LastStatus(calls, n - 1)

(* C16: a fresh capture has status 200, no headers and an empty body;      *)
(* after any interleaving of Header, Write and WriteHeader calls the       *)
(* status code is the argument of the most recent WriteHeader call, or 200 *)
(* if there was none.                                                      *)
C16_LastStatusWins ==
    /\ hist = <<>> =>
           (crw.statusCode = StatusOK /\ crw.header = EmptyHeader /\ crw.buf = <<>>)
    /\ crw.statusCode = LastStatus(hist, Len(hist))

\* WriteHeader was called twice after a body write, and the second call won
C16_Witness ==
    /\ Len(hist) = 3
    /\ hist[1][1] = "Write"
    /\ hist[1][2] # <<>>
    /\ hist[2] = <<"WriteHeader", StatusNotFound>>
    /\ hist[3] = <<"WriteHeader", StatusCreated>>
    /\ crw.statusCode = StatusCreated

(* C17: the request path of the lazy and of the preloading server is the  *)
(* request's RequestURI when that is not empty, also when it differs from  *)
(* URL.Path, and URL.Path otherwise; the template is resolved with that    *)
(* string, and it is the RequestURI of the template data and the           *)
(* "Request URI" of the diagnostics.                                       *)
C17_RequestPath ==
    (Served /\ srv.kind \in {"lazy", "preload"}) =>
        LET r    == last.req
            path == IF r.RequestURI # <<>> THEN r.RequestURI ELSE r.URLPath
        IN  /\ last.uri = path
            /\ srv.kind = "lazy" => last.tmpl = Config_FindTemplate(srv.config, path).tmpl
            /\ srv.kind = "preload" => last.tmpl = CGIServer_FindTemplate(srv, path).tmpl
            /\ last.data # NoData => last.data.RequestURI = path
            /\ last.messages # <<>> =>
                   \E i \in 1..Len(last.messages) :
                       last.messages[i] = << <<"Request URI">>, path >>

\* a request whose RequestURI carries a query string failed in the lazy
\* server and was reported
C17_Witness ==
    /\ Served
    /\ srv.kind = "lazy"
    /\ last.req = ReqHome
    /\ last.uri = UriHome
    /\ last.xerr # <<>>
    /\ last.messages # <<>>

(* C18: for every request of the lazy or of the preloading server that     *)
(* resolves to a template, the data given to the template execution holds  *)
(* the request path, the request itself and the data blob of the           *)
(* configuration, and the configuration's data blob is left unchanged.     *)
C18_RenderContext ==
    (Served /\ srv.kind \in {"lazy", "preload"} /\ last.tmpl # NilTemplate) =>
        /\ last.data.RequestURI = last.uri
        /\ last.data.Request = last.req
        /\ "Data" \in DOMAIN last.data
        /\ last.data.Data = cfg.Data
        /\ srv.config.Data = cfg.Data

\* the position of the first call of the given kinds in the log of the writer
\* (one past the end if there is none)
FirstCall(log, kinds) ==
    LET at == {i \in 1..Len(log) : log[i][1] \in kinds}
    IN  IF at = {} THEN Len(log) + 1 ELSE CHOOSE i \in at : \A j \in at : i <= j

(* C19: when template execution succeeds in the lazy server, the committed *)
(* response has status 200, Content-Type "text/html; charset=utf-8" and    *)
(* the rendered bytes as its body, and on the real writer the Content-Type *)
(* header is set before the status is fixed and before the first body      *)
(* byte is written.                                                        *)
C19_SuccessCommit ==
    (Served /\ srv.kind = "lazy" /\ last.rerr = <<>> /\ last.xerr = <<>>) =>
        /\ Committed(w).code = StatusOK
        /\ Committed(w).header[ContentType] = TextHTML
        /\ w.body = last.out
        /\ w.body = Execute(last.tmpl, last.data).out
        /\ w.log[FirstCall(w.log, {"Header"})] = <<"Header", ContentType, TextHTML>>
        /\ FirstCall(w.log, {"Header"}) < FirstCall(w.log, {"Write", "WriteHeader"})
        /\ FirstCall(w.log, {"Write", "WriteHeader"}) <= Len(w.log)

\* a request with a query string was rendered by the lazy server
C19_Witness ==
    /\ Served
    /\ srv.kind = "lazy"
    /\ last.req = ReqHome
    /\ last.tmpl = "a.html"
    /\ w.body = <<"A:", "/", "home", "?", "a", "&amp;", "b">>
    /\ Committed(w).code = StatusOK

(* C20: when a configured pattern does not compile, New fails and returns  *)
(* no server, so a server object exists, and a request is served, only     *)
(* with a rule list whose patterns all compile.                            *)
C20_NoServerWithBadPattern ==
    /\ srv.kind \in {"lazy", "preload", "stream"} => AllCompile(cfg.Templates)
    /\ Served => AllCompile(srv.config.Templates)

---------------------------------------------------------------------------
(* Servers built from configurations that name template files which do not *)
(* exist                                                                   *)

ConfigsLoad ==
    [DefaultTemplate : {"", "b.html", "missing.html"},
     Templates       : SeqsUpTo([Pattern : {PatApi, PatSlash},
                                 Template : {"a.html", "missing.html"}], MaxRules),
     Data            : {"blob"}]

InitLoad ==
    /\ cfg \in ConfigsLoad
    /\ srv = NoServer
    /\ debugGloballyEnabled = FALSE
    /\ envDebug = ""
    /\ w = NewWriter
    /\ last = Idle
    /\ genericSeen = {}
    /\ CaptureIdle
    /\ proc = NoProcess

NextLoad ==
    \/ New_Lazy
    \/ New_Preload
    \/ SetDebugMode
    \/ ServeHTTP_Lazy
    \/ ServeHTTP_Preload

SpecLoad == InitLoad /\ [][NextLoad]_vars

\* the template files a configuration names
ConfiguredFiles(c) ==
    {c.Templates[i].Template : i \in 1..Len(c.Templates)}
        \cup (IF c.DefaultTemplate = "" THEN {} ELSE {c.DefaultTemplate})

\* the file the rules resolve a path to: the first matching rule's, else the default
RECURSIVE ResolvedFile(_, _, _)
ResolvedFile(c, uri, i) ==
    IF i > Len(c.Templates) THEN c.DefaultTemplate
    ELSE IF RuleMatches(c.Templates, i, uri) THEN c.Templates[i].Template
         ELSE ResolvedFile(c, uri, i + 1)

(* C21: a configured template file that cannot be loaded is handled in one *)
(* way by one server: the preloading server is not constructed and serves  *)
(* no request; the lazy server is constructed, answers 500 to every        *)
(* request that resolves to the file, and serves the requests that resolve *)
(* to loadable files normally.                                             *)
C21_LoadFailureConsistent ==
    /\ srv.kind = "preload" => ConfiguredFiles(cfg) \subseteq ParsableFiles
    /\ Served => srv.kind \in {"lazy", "preload"}
    /\ (Served /\ srv.kind = "lazy") =>
           LET file == ResolvedFile(cfg, last.uri, 1)
           IN  /\ (file # "" /\ file \notin ParsableFiles) =>
                      /\ last.rerr # <<>>
                      /\ Committed(w).code = StatusInternalServerError
               /\ file \in ParsableFiles =>
                      /\ last.rerr = <<>>
                      /\ last.tmpl = file
                      /\ last.xerr = <<>> =>
                             (Committed(w).code = StatusOK /\ w.body = last.out)

\* the lazy server of a configuration with a missing rule template served a
\* request that resolves to a loadable template, after failing another one
C21_Witness ==
    /\ Served
    /\ srv.kind = "lazy"
    /\ "missing.html" \in ConfiguredFiles(cfg)
    /\ Committed(w).code = StatusOK
    /\ genericSeen # {}

---------------------------------------------------------------------------
(* The debug report as CGI bytes: RenderDebugError run on a capture *)

MaxReports == 2

\* the calls a handler makes on its http.ResponseWriter, made on a capture
RECURSIVE Replay(_, _, _)
Replay(c, calls, i) ==
    IF i > Len(calls) THEN c
    ELSE LET call == calls[i]
         IN  Replay(CASE call[1] = "Header" ->
                             [c EXCEPT !.header = Header_Set(@, call[2], <<call[3]>>)]
                      [] call[1] = "WriteHeader" ->
                             responseCapture_WriteHeader(c, call[2])
                      [] OTHER -> responseCapture_Write(c, call[2]).crw,
                    calls, i + 1)

\* CaptureFuncCGI that frames the body of a fresh capture's writes only
CaptureFuncCGI_BodyOnly(calls) ==
    formatCGIOutput(
        Replay(newResponseCapture,
               SelectSeq(calls, LAMBDA call : call[1] = "Write"), 1)).out

\* cgicapture.CaptureFuncCGI; calls are the calls of the handler on its writer
CaptureFuncCGI(calls) ==
    formatCGIOutput(Replay(newResponseCapture, calls, 1)).out

\* debug.RenderDebugErrorAsCGIString
RenderDebugErrorAsCGIString(messages, renderErr) ==
    CaptureFuncCGI(RenderDebugError(NewWriter, messages, renderErr).log)

Call_RenderDebugErrorAsCGIString ==
    /\ Len(hist) < MaxReports
    /\ \E messages \in Diagnostics, renderErr \in RenderOutcomes :
         LET result == RenderDebugErrorAsCGIString(messages, renderErr)
         IN  /\ hist' = Append(hist, [messages  |-> messages,
                                      renderErr |-> renderErr,
                                      enabled   |-> IsDebugEnabled(debugGloballyEnabled,
                                                                   envDebug),
                                      result    |-> result])
             /\ ret' = [NoReturn EXCEPT !.op = "RenderDebugErrorAsCGIString",
                                        !.out = result]
    /\ UNCHANGED <<crw, serverVars, proc>>

NextCGIString ==
    \/ Setenv
    \/ SetDebugMode
    \/ Call_RenderDebugErrorAsCGIString

SpecCGIString == InitDebug /\ [][NextCGIString]_vars

\* two calls with the same diagnostics returned the same string
SameInputSameString ==
    \A i, j \in 1..Len(hist) :
        (hist[i].messages = hist[j].messages /\ hist[i].renderErr = hist[j].renderErr)
            => hist[i].result = hist[j].result

(* C22, as stated: for every diagnostics list the string is the frame of   *)
(* the debug page: the line Content-Type: text/html; charset=utf-8, one    *)
(* blank line, a page with every label and every value; equal inputs give  *)
(* equal strings whatever the debug flag and the environment are.          *)
C22_AlwaysHTMLReport ==
    /\ SameInputSameString
    /\ \A i \in 1..Len(hist) :
         LET e == hist[i]
         IN  /\ HasPrefix(e.result, <<"Content-Type: ", TextHTML, CRLF, CRLF>>)
             /\ FirstBlankLine(e.result) = 3
             /\ \A k \in 1..Len(e.messages) :
                    /\ Contains(e.result, e.messages[k][1])
                    /\ Contains(e.result, e.messages[k][2])

(* C22, amended: the string is a function of the diagnostics and of the    *)
(* outcome of rendering the debug template, not of the debug flag or the   *)
(* environment.  When the template renders it is the text/html frame of    *)
(* the debug page, which holds every label and value HTML-escaped; when it *)
(* does not, it is the text/plain frame of the fallback, which holds every *)
(* pair as "label: value".  The frame has one header line and one blank    *)
(* line before the body.                                                   *)
C22_FrameOfReport ==
    /\ SameInputSameString
    /\ \A i \in 1..Len(hist) :
         LET e == hist[i]
         IN  /\ FirstBlankLine(e.result) = 3
             /\ e.renderErr = <<>> =>
                    /\ HasPrefix(e.result, <<"Content-Type: ", TextHTML, CRLF, CRLF>>)
                    /\ Contains(e.result, <<"Runtime Error">>)
                    /\ \A k \in 1..Len(e.messages) :
                           /\ Contains(e.result, HTMLEscape(e.messages[k][1]) \o <<":">>)
                           /\ Contains(e.result, HTMLEscape(e.messages[k][2]))
             /\ e.renderErr # <<>> =>
                    /\ HasPrefix(e.result, <<"Content-Type: ", TextPlain, CRLF, CRLF>>)
                    /\ ~Contains(e.result, <<"Runtime Error">>)
                    /\ \A k \in 1..Len(e.messages) :
                           Contains(e.result, e.messages[k][1] \o <<": ">>
                                                  \o e.messages[k][2] \o <<"\n">>)

\* the same diagnostics, with a value that needs escaping, were framed twice,
\* once with debug mode on and once with debug mode off
C22_Witness ==
    /\ Len(hist) = 2
    /\ hist[1].messages = hist[2].messages
    /\ hist[1].renderErr = <<>> /\ hist[2].renderErr = <<>>
    /\ hist[1].enabled # hist[2].enabled
    /\ \E k \in 1..Len(hist[1].messages) : hist[1].messages[k][2] = ExecError

---------------------------------------------------------------------------
(* The process: func main of the preloading revision (main.go), from the   *)
(* creation of the server on.  proc.pc is the statement the process is at. *)

\* contents of the configuration file
ConfigsMain ==
    { [DefaultTemplate |-> "b.html",
       Templates |-> <<[Pattern |-> PatApi, Template |-> "a.html"]>>, Data |-> "blob"],
      [DefaultTemplate |-> "b.html",
       Templates |-> <<[Pattern |-> PatApi, Template |-> "missing.html"]>>,
       Data |-> "blob"],
      [DefaultTemplate |-> "b.html",
       Templates |-> <<[Pattern |-> PatBad, Template |-> "a.html"]>>, Data |-> "blob"] }

\* error of os.ReadFile on a configuration file that does not exist
ReadFileError ==
    <<"failed to load config: ", "failed to read config file: ", "open ",
      "config.yaml", ": ", "no such file or directory">>

\* server.New(configPath) in the environment of the process
main_New(c, fileExists) ==
    IF fileExists THEN NewPreloaded("preload", c)
    ELSE [kind |-> "failed", err |-> ReadFileError]

\* the diagnostics fatalErr reports
fatalMessages(stage, err) ==
    << << <<"Result">>, <<"Failed to start server">> >>,
       << <<"Stage">>, stage >>,
       << <<"Error">>, err >> >>

\* fatalErr that prints the report whatever the debug mode is
fatalErr_PrintAlways(p, stage, err, enabled, renderErr) ==
    IF enabled
    THEN [p EXCEPT !.stdout = Append(@, RenderDebugErrorAsCGIString(
                                            fatalMessages(stage, err), renderErr)),
                   !.exit = 0, !.pc = "exited"]
    ELSE [p EXCEPT !.stdout = Append(@, RenderDebugErrorAsCGIString(
                                            fatalMessages(stage, err), renderErr)),
                   !.log = Append(@, stage \o <<" failed: ">> \o err),
                   !.exit = 1, !.pc = "exited"]

\* fatalErr(stage, err): fmt.Print of the report and os.Exit(0) with debug
\* mode on, log.Fatalf (a log line and os.Exit(1)) with debug mode off
fatalErr(p, stage, err, enabled, renderErr) ==
    IF enabled
    THEN [p EXCEPT !.stdout = Append(@, RenderDebugErrorAsCGIString(
                                            fatalMessages(stage, err), renderErr)),
                   !.exit = 0, !.pc = "exited"]
    ELSE [p EXCEPT !.log = Append(@, stage \o <<" failed: ">> \o err),
                   !.exit = 1, !.pc = "exited"]

InitMain ==
    /\ cfg \in ConfigsMain
    /\ srv = NoServer
    /\ debugGloballyEnabled = FALSE
    /\ envDebug \in EnvValues
    /\ w = NewWriter
    /\ last = Idle
    /\ genericSeen = {}
    /\ CaptureIdle
    /\ \E gateway \in {"", "CGI/1.1"}, configEnv \in {"", "/etc/tmpl.yaml"},
          fileExists \in BOOLEAN :
         proc = [NoProcess EXCEPT !.pc = "server.New", !.gateway = gateway,
                                  !.configEnv = configEnv, !.fileExists = fileExists]

\* srv, err := server.New(*configPath) and the test of err
main_CreateServer ==
    /\ proc.pc = "server.New"
    /\ LET r == main_New(cfg, proc.fileExists)
       IN  IF r.kind = "failed"
           THEN /\ srv' = srv
                /\ IF /\ Contains(r.err, <<"failed to load config: ">>)
                      /\ Contains(r.err, <<"no such file or directory">>)
                      /\ proc.configEnv # ""
                      /\ ~IsDebugEnabled(debugGloballyEnabled, envDebug)
                   THEN proc' = [proc EXCEPT
                                    !.failed = "create",
                                    !.log = Append(@, <<"Config file 'config.yaml' not found.">>),
                                    !.exit = 1, !.pc = "exited"]
                   ELSE proc' = [proc EXCEPT !.failed = "create",
                                             !.stage = <<"Creating CGI server">>,
                                             !.err = r.err, !.pc = "fatalErr"]
           ELSE /\ srv' = r
                /\ proc' = [proc EXCEPT !.pc = "GATEWAY_INTERFACE"]
    /\ UNCHANGED <<cfg, debugGloballyEnabled, envDebug, w, last, genericSeen>>
    /\ UNCHANGED captureVars

\* if os.Getenv("GATEWAY_INTERFACE") != ""
main_Mode ==
    /\ proc.pc = "GATEWAY_INTERFACE"
    /\ proc' = IF proc.gateway # ""
               THEN [proc EXCEPT !.pc = "cgi.Serve", !.entered = @ \cup {"cgi.Serve"}]
               ELSE [proc EXCEPT !.pc = "net.Listen"]
    /\ UNCHANGED <<serverVars, captureVars>>

\* ln, err := net.Listen("tcp", ":"+port), and the log line before http.Serve
main_Listen ==
    /\ proc.pc = "net.Listen"
    /\ \E ok \in BOOLEAN :
         proc' = IF ok
                 THEN [proc EXCEPT !.log = Append(@, <<"Starting test server on port ", "8080">>),
                                   !.pc = "http.Serve",
                                   !.entered = @ \cup {"http.Serve"}]
                 ELSE [proc EXCEPT !.failed = "listen",
                                   !.stage = <<"Listening on port ", "8080">>,
                                   !.err = <<"listen tcp :8080: bind: address already in use">>,
                                   !.pc = "fatalErr"]
    /\ UNCHANGED <<serverVars, captureVars>>

\* the server handles a request: one under cgi.Serve, any number under http.Serve
main_ServeRequest ==
    /\ proc.pc \in {"cgi.Serve", "http.Serve"}
    /\ proc.pc = "cgi.Serve" => last = Idle
    /\ ServeHTTP_Preload

\* cgi.Serve returns: nil after the request, or the error of reading the request
main_CGIReturns ==
    /\ proc.pc = "cgi.Serve"
    /\ \/ /\ last # Idle
          /\ proc' = [proc EXCEPT !.exit = 0, !.pc = "exited"]
       \/ /\ last = Idle
          /\ proc' = [proc EXCEPT !.failed = "serve",
                                  !.stage = <<"Serving CGI server">>,
                                  !.err = <<"cgi: no REQUEST_METHOD in environment">>,
                                  !.pc = "fatalErr"]
    /\ UNCHANGED <<serverVars, captureVars>>

\* http.Serve returns, always with an error
main_HTTPReturns ==
    /\ proc.pc = "http.Serve"
    /\ proc' = [proc EXCEPT !.failed = "serve",
                            !.stage = <<"Error in test server">>,
                            !.err = <<"accept tcp: use of closed network connection">>,
                            !.pc = "fatalErr"]
    /\ UNCHANGED <<serverVars, captureVars>>

\* the call of fatalErr the process is at
main_fatalErr ==
    /\ proc.pc = "fatalErr"
    /\ \E renderErr \in RenderOutcomes :
         proc' = fatalErr(proc, proc.stage, proc.err,
                          IsDebugEnabled(debugGloballyEnabled, envDebug), renderErr)
    /\ UNCHANGED <<serverVars, captureVars>>

NextMain ==
    \/ main_CreateServer
    \/ main_Mode
    \/ main_Listen
    \/ main_ServeRequest
    \/ main_CGIReturns
    \/ main_HTTPReturns
    \/ main_fatalErr

\* the process has a next statement; Running is ENABLED <<NextMain>>_vars
Running == proc.pc \notin {"none", "exited"}

\* a running process takes its next step: WF_vars(NextMain), with its
\* ENABLED written as the state predicate Running
SpecMain ==
    InitMain /\ [][NextMain]_vars /\ ([]<>(~Running) \/ []<><<NextMain>>_vars)

\* server creation or listener setup has failed
StartupFailed == proc.failed \in {"create", "listen"}

\* the diagnostic of a terminated process
DiagnosticOf(p, enabled) ==
    IF enabled
    THEN /\ Len(p.stdout) = 1
         /\ HasPrefix(p.stdout[1], <<"Content-Type: ">>)
         /\ FirstBlankLine(p.stdout[1]) = 3
         /\ Contains(p.stdout[1], <<"Failed to start server">>)
         /\ Contains(p.stdout[1], p.stage)
         /\ p.log = <<>>
    ELSE /\ p.stdout = <<>>
         /\ Len(p.log) = 1

(* C23: once server creation or listener setup has failed, the process     *)
(* never enters cgi.Serve or http.Serve and handles no request, and it     *)
(* terminates; when it has terminated, with debug mode on its standard     *)
(* output holds exactly one CGI frame of the debug report, and with debug  *)
(* mode off its log holds one fatal message and its standard output is     *)
(* empty.                                                                  *)
C23_StartupFailureTerminates ==
    /\ [](StartupFailed => (proc.entered = {} /\ last = Idle))
    /\ []((StartupFailed /\ proc.pc = "exited") =>
             DiagnosticOf(proc, IsDebugEnabled(debugGloballyEnabled, envDebug)))
    /\ (StartupFailed ~> (proc.pc = "exited" /\ proc.exit \in {0, 1}))

\* the listener could not be set up, debug mode was on, the process has exited
C23_Witness ==
    /\ proc.failed = "listen"
    /\ proc.pc = "exited"
    /\ IsDebugEnabled(debugGloballyEnabled, envDebug)
    /\ Len(proc.stdout) = 1

---------------------------------------------------------------------------
(* Config.Validate (pkg/config): the syntax check of a configuration *)

\* the request path validateTemplate uses when the rule has no test_uri
UriTest == <<"/", "test", "/", "path">>

ConfigsValidate ==
    [DefaultTemplate : {"", "b.html", "bad.html", "api.html"},
     Templates       : SeqsUpTo([Pattern  : {PatApi, PatBad},
                                 Template : {"a.html", "api.html", "missing.html"},
                                 TestURI  : {<<>>, UriApi}], MaxRules),
     Data            : {"blob"}]

\* Config.validateTemplate that uses "/test/path" for every template
validateTemplate_FixedURI(c, t) ==
    LET l == LoadTemplate(c, t.Template)
    IN  IF l.err # <<>> THEN <<"loading template: ">> \o l.err
        ELSE LET x == Execute(l.tmpl, [RequestURI |-> UriTest, Data |-> c.Data])
             IN  IF x.err # <<>> THEN <<"executing template: ">> \o x.err ELSE <<>>

\* Config.validateTemplate: the error, <<>> for nil
validateTemplate(c, t) ==
    LET l == LoadTemplate(c, t.Template)
    IN  IF l.err # <<>> THEN <<"loading template: ">> \o l.err
        ELSE LET sampleData == [RequestURI |-> IF t.TestURI # <<>> THEN t.TestURI
                                               ELSE UriTest,
                                Data |-> c.Data]
                 x == Execute(l.tmpl, sampleData)
             IN  IF x.err # <<>> THEN <<"executing template: ">> \o x.err ELSE <<>>

\* Config.Validate, the loop over the rule templates from rule i on
RECURSIVE validateRules(_, _)
validateRules(c, i) ==
    IF i > Len(c.Templates) THEN <<>>
    ELSE LET err == validateTemplate(c, c.Templates[i])
         IN  IF err # <<>>
             THEN <<"template '", c.Templates[i].Template, "': ">> \o err
             ELSE validateRules(c, i + 1)

\* Config.Validate: the error, <<>> for nil
Validate(c) ==
    IF \E i \in 1..Len(c.Templates) : ~Compiles(c.Templates[i].Pattern)
    THEN <<"compiling regex: ", "missing closing ]">>
    ELSE LET err == validateTemplate(c, [Template |-> c.DefaultTemplate,
                                         TestURI  |-> UriTest])
         IN  IF err # <<>>
             THEN <<"default template '", c.DefaultTemplate, "': ">> \o err
             ELSE validateRules(c, 1)

InitValidate ==
    /\ cfg \in ConfigsValidate
    /\ srv = NoServer
    /\ debugGloballyEnabled = FALSE
    /\ envDebug = ""
    /\ w = NewWriter
    /\ last = Idle
    /\ genericSeen = {}
    /\ CaptureIdle
    /\ proc = NoProcess

Call_Validate ==
    /\ ret.op = "none"
    /\ ret' = [NoReturn EXCEPT !.op = "Validate", !.err = Validate(cfg)]
    /\ UNCHANGED <<serverVars, crw, hist, proc>>

NextValidate == Call_Validate

SpecValidate == InitValidate /\ [][NextValidate]_vars

\* the file exists and parses
Loads(file) == file \in {"a.html", "b.html", "bad.html", "api.html"}

\* the file's template runs to the end for the request path
Executes(file, uri) ==
    \/ file \in {"a.html", "b.html"}
    \/ file = "api.html" /\ uri[1] = "/" /\ uri[2] = "api"

---------------------------------------------------------------------------
(* The running server: Run, and the request handlers the listener starts.  *)
(* Each handler is a goroutine with its own locals; its statements are     *)
(* interleaved with those of the other handlers.                           *)

\* handler goroutines in flight at a time
MaxHandlers == 2

Handlers == 1..MaxHandlers

\* the locals of a handler that has no request
IdleHandler ==
    [pc |-> "idle", req |-> NoRequest, uri |-> <<>>, tmpl |-> NilTemplate,
     name |-> "", err |-> <<>>, buf |-> <<>>, xerr |-> <<>>, w |-> NewWriter,
     enabled |-> FALSE, renderErr |-> <<>>, overlap |-> FALSE]

ConfigsServe ==
    { [DefaultTemplate |-> "b.html",
       Templates |-> <<[Pattern |-> PatApi, Template |-> "bad.html"]>>, Data |-> "blob"],
      [DefaultTemplate |-> "b.html",
       Templates |-> <<[Pattern |-> PatApi, Template |-> "a.html"]>>, Data |-> "blob"] }

\* Run without its call of debug.SetDebugMode
runBranch_NoDebugMode(p, s) ==
    IF p.gateway # "" THEN [p EXCEPT !.pc = "cgi.Serve"]
    ELSE [p EXCEPT !.pc = "net.Listen"]

\* the branch on GATEWAY_INTERFACE: Run of the lazy server (part_003:26-36)
\* calls debug.SetDebugMode first in standalone mode, main of the
\* preloading server (main.go:65-77) does not
runBranch(p, s) ==
    IF p.gateway # "" THEN [p EXCEPT !.pc = "cgi.Serve"]
    ELSE IF s.kind = "lazy" THEN [p EXCEPT !.pc = "SetDebugMode"]
         ELSE [p EXCEPT !.pc = "net.Listen"]

\* requestURI := getRequestURI(r)
handlerBegin(hs, g, r) ==
    [hs EXCEPT ![g] = [IdleHandler EXCEPT
                          !.pc = "FindTemplate", !.req = r, !.uri = getRequestURI(r),
                          !.overlap = \E o \in DOMAIN hs :
                                         o # g /\ hs[o].pc \notin {"idle", "done"}]]

\* tmpl, err := s.config.FindTemplate(requestURI), or
\* tmpl, templateName := s.FindTemplate(requestURI)
handlerFind(hs, g, s) ==
    IF s.kind = "lazy"
    THEN LET found == Config_FindTemplate(s.config, hs[g].uri)
         IN  [hs EXCEPT ![g] = [@ EXCEPT !.pc = "Execute", !.tmpl = found.tmpl,
                                         !.err = found.err]]
    ELSE LET found == CGIServer_FindTemplate(s, hs[g].uri)
         IN  [hs EXCEPT ![g] = [@ EXCEPT !.pc = "Execute", !.tmpl = found.tmpl,
                                         !.name = found.templateName]]

\* the data of the handler's request
handlerData(h, s) ==
    IF s.kind = "lazy"
    THEN [RequestURI |-> h.uri, Request |-> h.req, Data |-> s.config.Data]
    ELSE [RequestURI |-> h.uri, Request |-> h.req]

\* a handler whose buffer is one package-level buffer
handlerExecute_SharedBuffer(hs, g, s) ==
    IF hs[g].err # <<>> \/ hs[g].tmpl = NilTemplate
    THEN [hs EXCEPT ![g] = [@ EXCEPT !.pc = "Write"]]
    ELSE LET ex == Execute(hs[g].tmpl, handlerData(hs[g], s))
         IN  [o \in DOMAIN hs |->
                 IF o = g
                 THEN [hs[o] EXCEPT !.pc = "Write", !.buf = ex.out, !.xerr = ex.err]
                 ELSE [hs[o] EXCEPT !.buf = ex.out]]

\* var buf bytes.Buffer; err = tmpl.Execute(&buf, data)
handlerExecute(hs, g, s) ==
    IF hs[g].err # <<>> \/ hs[g].tmpl = NilTemplate
    THEN [hs EXCEPT ![g] = [@ EXCEPT !.pc = "Write"]]
    ELSE LET ex == Execute(hs[g].tmpl, handlerData(hs[g], s))
         IN  [hs EXCEPT ![g] = [@ EXCEPT !.pc = "Write", !.buf = ex.out,
                                         !.xerr = ex.err]]

\* the rest of ServeHTTP: the error report or the response, on the handler's w
handlerWrite(hs, g, s, flag, env, renderErr) ==
    LET h  == hs[g]
        w1 == HeaderSet(NewWriter, ContentType, TextHTML)
        ww == IF s.kind = "lazy"
              THEN IF h.err # <<>>
                   THEN WriteDebugError(
                            NewWriter,
                            << << <<"Request URI">>, h.uri >>,
                               << <<"Error loading template">>, h.err >> >>,
                            flag, env, renderErr)
                   ELSE IF h.xerr # <<>>
                        THEN WriteDebugError(
                                 NewWriter,
                                 << << <<"Request URI">>, h.uri >>,
                                    << <<"Error executing template">>, h.xerr >> >>,
                                 flag, env, renderErr)
                        ELSE Write(w1, h.buf)
              ELSE IF h.tmpl = NilTemplate
                   THEN HttpError(NewWriter,
                                  <<"No template configured for this request">>,
                                  StatusNotFound)
                   ELSE IF h.xerr # <<>>
                        THEN IF IsDebugEnabled(flag, env)
                             THEN RenderDebugError(
                                      w1,
                                      << << <<"Template Name">>, <<h.name>> >>,
                                         << <<"Request URI">>, h.uri >>,
                                         << <<"Error">>, h.xerr >> >>,
                                      renderErr)
                             ELSE Write(WriteHeader(w1, StatusInternalServerError),
                                        <<"Template execution failed">>)
                        ELSE Write(w1, h.buf)
    IN  [hs EXCEPT ![g] = [@ EXCEPT !.pc = "done", !.w = ww,
                                    !.enabled = IsDebugEnabled(flag, env),
                                    !.renderErr = renderErr]]

InitServe ==
    /\ cfg \in ConfigsServe
    /\ srv = NoServer
    /\ debugGloballyEnabled = FALSE
    /\ envDebug \in {"", "yes"}
    /\ w = NewWriter
    /\ last = Idle
    /\ genericSeen = {}
    /\ CaptureIdle
    /\ \E gateway \in {"", "CGI/1.1"} :
         proc = [NoProcess EXCEPT !.pc = "Run", !.gateway = gateway,
                                  !.handlers = [g \in Handlers |-> IdleHandler]]

\* if os.Getenv("GATEWAY_INTERFACE") != ""
Run_Mode ==
    /\ proc.pc = "Run"
    /\ srv.kind \in {"lazy", "preload"}
    /\ proc' = runBranch(proc, srv)
    /\ UNCHANGED <<serverVars, captureVars>>

\* debug.SetDebugMode() in Run
Run_SetDebugMode ==
    /\ proc.pc = "SetDebugMode"
    /\ debugGloballyEnabled' = TRUE
    /\ proc' = [proc EXCEPT !.pc = "net.Listen"]
    /\ UNCHANGED <<cfg, srv, envDebug, w, last, genericSeen, captureVars>>

\* ln, err := net.Listen(...); http.Serve(ln, s), or return of the error
Run_Listen ==
    /\ proc.pc = "net.Listen"
    /\ \E ok \in BOOLEAN :
         proc' = [proc EXCEPT !.pc = IF ok THEN "http.Serve" ELSE "returned"]
    /\ UNCHANGED <<serverVars, captureVars>>

\* the listener hands a request to a handler; cgi.Serve has one request
Handler_Begin ==
    /\ proc.pc \in {"cgi.Serve", "http.Serve"}
    /\ \E g \in Handlers, r \in Requests :
         /\ proc.pc = "cgi.Serve" => g = 1
         /\ proc.handlers[g].pc = "idle"
         /\ proc' = [proc EXCEPT !.handlers = handlerBegin(@, g, r)]
    /\ UNCHANGED <<serverVars, captureVars>>

Handler_Find ==
    /\ \E g \in DOMAIN proc.handlers :
         /\ proc.handlers[g].pc = "FindTemplate"
         /\ proc' = [proc EXCEPT !.handlers = handlerFind(@, g, srv)]
    /\ UNCHANGED <<serverVars, captureVars>>

Handler_Execute ==
    /\ \E g \in DOMAIN proc.handlers :
         /\ proc.handlers[g].pc = "Execute"
         /\ proc' = [proc EXCEPT !.handlers = handlerExecute(@, g, srv)]
    /\ UNCHANGED <<serverVars, captureVars>>

Handler_Write ==
    /\ \E g \in DOMAIN proc.handlers, renderErr \in RenderOutcomes :
         /\ proc.handlers[g].pc = "Write"
         /\ proc' = [proc EXCEPT !.handlers =
                        handlerWrite(@, g, srv, debugGloballyEnabled, envDebug,
                                     renderErr)]
    /\ UNCHANGED <<serverVars, captureVars>>

\* cgi.Serve returns after its request
Run_CGIReturns ==
    /\ proc.pc = "cgi.Serve"
    /\ proc.handlers[1].pc = "done"
    /\ proc' = [proc EXCEPT !.pc = "returned"]
    /\ UNCHANGED <<serverVars, captureVars>>

NextServe ==
    \/ New_Lazy
    \/ New_Preload
    \/ Run_Mode
    \/ Run_SetDebugMode
    \/ Run_Listen
    \/ Handler_Begin
    \/ Handler_Find
    \/ Handler_Execute
    \/ Handler_Write
    \/ Run_CGIReturns

SpecServe == InitServe /\ [][NextServe]_vars

\* what the handler's request gets when it is the only request
Alone(h) ==
    IF srv.kind = "lazy"
    THEN ServeLazy(srv, h.req, debugGloballyEnabled, envDebug, h.renderErr)
    ELSE ServePreload(srv, h.req, debugGloballyEnabled, envDebug, h.renderErr)

(* C25: no statement of a request handler changes the configuration or the *)
(* server (rules, default template, compiled patterns, loaded templates),  *)
(* and a handler that has finished, whatever the other handlers did in the *)
(* meantime, resolved its request to the template and committed the        *)
(* response, call for call, that the request gets when handled alone.      *)
C25_HandlersIndependent ==
    /\ [][srv.kind # "none" => (srv' = srv /\ cfg' = cfg)]_vars
    /\ [](\A g \in DOMAIN proc.handlers :
             LET h == proc.handlers[g]
             IN  /\ h.pc \in {"Execute", "Write", "done"} => h.tmpl = Alone(h).last.tmpl
                 /\ h.pc = "done" => h.w = Alone(h).w)

\* two handlers were in flight together, executed different templates into
\* their buffers, and one of them has committed
C25_Witness ==
    /\ DOMAIN proc.handlers = Handlers
    /\ proc.handlers[1].pc = "done"
    /\ proc.handlers[2].pc = "Write"
    /\ proc.handlers[2].overlap
    /\ proc.handlers[1].buf # <<>> /\ proc.handlers[2].buf # <<>>
    /\ proc.handlers[1].buf # proc.handlers[2].buf

\* a handler has a request
InFlight(h) == h.pc # "idle"

(* C27: in standalone mode Run sets the debug flag before it listens: the  *)
(* flag is true whenever a handler has a request, every handler sees debug *)
(* mode on, and the step that writes the flag is taken while no handler    *)
(* has a request.  In CGI mode the flag is never written and the handler   *)
(* sees debug mode on exactly when TMPL_CGI_DEBUG is true-like.            *)
C27_FlagSetBeforeServing ==
    /\ [](srv.kind = "lazy" =>
             \A g \in DOMAIN proc.handlers :
                 LET h == proc.handlers[g]
                 IN  IF proc.gateway = ""
                     THEN /\ InFlight(h) => debugGloballyEnabled
                          /\ h.pc = "done" => h.enabled
                     ELSE /\ ~debugGloballyEnabled
                          /\ h.pc = "done" => (h.enabled <=> envDebug \in Truthy))
    /\ [][debugGloballyEnabled' # debugGloballyEnabled =>
             \A g \in DOMAIN proc.handlers :
                 ~InFlight(proc.handlers[g]) /\ ~InFlight(proc'.handlers[g])]_vars

\* a handler of the standalone lazy server reported an error with debug mode
\* on although TMPL_CGI_DEBUG is not set
C27_Witness ==
    /\ srv.kind = "lazy"
    /\ proc.gateway = ""
    /\ envDebug = ""
    /\ \E g \in DOMAIN proc.handlers :
           /\ proc.handlers[g].pc = "done"
           /\ proc.handlers[g].xerr # <<>>
           /\ proc.handlers[g].enabled

---------------------------------------------------------------------------
(* The plain-text fallback of the debug report *)

\* the lines "label: value" of the diagnostics, in order
PlainPairs(messages) ==
    Flatten([i \in 1..Len(messages) |->
                messages[i][1] \o <<": ">> \o messages[i][2] \o <<"\n">>])

\* text that only the debug page has
PageMarkup == {"<!DOCTYPE html>", "Debug Mode Enabled", "Runtime Error",
               "<div class=error-label>", "<div class=error-value>", "</div>",
               "</html>"}

(* C26: when the debug page does not render, RenderDebugError returns and  *)
(* the sink holds status 500, text/plain, and as body the explanation of    *)
(* the failure followed by the line "label: value" of every diagnostic in  *)
(* input order, values unescaped; nothing of the page is in the body.      *)
C26_FallbackOnly ==
    (last.op = "RenderDebugError" /\ last.reporter = "fallback") =>
        /\ \E e \in RenderOutcomes \ {<<>>} :
               w.body = <<"Debug template error: ">> \o e \o <<"\n\nMessages:\n">>
                            \o PlainPairs(last.messages)
        /\ \A k \in 1..Len(w.body) : w.body[k] \notin PageMarkup
        /\ Committed(w).code = StatusInternalServerError
        /\ Committed(w).header[ContentType] = TextPlain

\* the fallback reported two diagnostics, one with a value the page would escape
C26_Witness ==
    /\ last.op = "RenderDebugError"
    /\ last.reporter = "fallback"
    /\ Len(last.messages) = 2
    /\ Contains(w.body, <<"Request URI">> \o <<": ">> \o UriHome)

---------------------------------------------------------------------------
(* Resolution in the preloading server and in the lazily compiling router  *)

(* C28: in the preloading server a path whose first matching rule is rule  *)
(* i is resolved to the template loaded from rule i's file, the file whose *)
(* name is returned with it, also when two rules have the same pattern     *)
(* string or a pattern is the string "default"; a path no rule matches is  *)
(* resolved to the template loaded from default_template.                  *)
C28_PreloadTemplateOfRule ==
    (Served /\ srv.kind = "preload") =>
        /\ \A i \in 1..Len(cfg.Templates) :
               IsFirstMatch(cfg.Templates, i, last.uri) =>
                   /\ last.name = cfg.Templates[i].Template
                   /\ last.tmpl = cfg.Templates[i].Template
        /\ (NoRuleMatches(cfg.Templates, last.uri) /\ cfg.DefaultTemplate # "") =>
               last.tmpl = cfg.DefaultTemplate

\* the index of the first pattern that does not compile, 0 if all compile
FirstBad(rules) ==
    IF AllCompile(rules) THEN 0
    ELSE CHOOSE j \in 1..Len(rules) :
             /\ ~Compiles(rules[j].Pattern)
             /\ \A k \in 1..(j - 1) : Compiles(rules[k].Pattern)

---------------------------------------------------------------------------
(* The syntax check of the preloading revision: server.ValidateTemplates   *)

ConfigsSyntax ==
    [DefaultTemplate : {"", "b.html", "sprig.html", "missing.html"},
     Templates       : SeqsUpTo([Pattern  : {PatApi, PatBad},
                                 Template : {"a.html", "sprig.html", "bad.html"}],
                                MaxRules),
     Data            : {"blob"}]

\* template.ParseFiles(templatePath) on a template with the built-in
\* functions only: a call of a sprig function is "function not defined"
ParseFilesBuiltin(templatePath) ==
    IF templatePath \in ParsableFiles \ SprigFiles
    THEN [tmpl |-> templatePath, err |-> <<>>]
    ELSE IF templatePath \in SprigFiles
         THEN [tmpl |-> NilTemplate,
               err  |-> <<"template: ", templatePath, ": function \"upper\" not defined">>]
         ELSE [tmpl |-> NilTemplate, err |-> ParseError(templatePath)]

\* validateTemplate of server.go: the error, <<>> for nil
serverValidateTemplate(templatePath, sampleData) ==
    LET p == ParseFilesBuiltin(templatePath)
    IN  IF p.err # <<>> THEN <<"failed to parse: ">> \o p.err
        ELSE LET x == Execute(p.tmpl, sampleData)
             IN  IF x.err # <<>>
                 THEN <<"failed to execute with sample data: ">> \o x.err
                 ELSE <<>>

\* ValidateTemplates, the loop over the rule templates from rule i on
RECURSIVE validateRuleTemplates(_, _, _)
validateRuleTemplates(c, sampleData, i) ==
    IF i > Len(c.Templates) THEN <<>>
    ELSE LET err == serverValidateTemplate(c.Templates[i].Template, sampleData)
         IN  IF err # <<>>
             THEN <<"template '", c.Templates[i].Template, "': ">> \o err
             ELSE validateRuleTemplates(c, sampleData, i + 1)

\* server.ValidateTemplates on the configuration the file holds
ValidateTemplates(c) ==
    LET p          == CompilePatterns(c.Templates)
        sampleData == [RequestURI |-> UriTest]
        d          == IF c.DefaultTemplate # ""
                      THEN serverValidateTemplate(c.DefaultTemplate, sampleData)
                      ELSE <<>>
    IN  IF p.err # <<>> THEN <<"invalid regex patterns: ">> \o p.err
        ELSE IF d # <<>>
             THEN <<"default template '", c.DefaultTemplate, "': ">> \o d
             ELSE validateRuleTemplates(c, sampleData, 1)

InitSyntax ==
    /\ cfg \in ConfigsSyntax
    /\ srv = NoServer
    /\ debugGloballyEnabled = FALSE
    /\ envDebug = ""
    /\ w = NewWriter
    /\ last = Idle
    /\ genericSeen = {}
    /\ CaptureIdle
    /\ proc = NoProcess

\* tmpl.cgi -syntax-check
Call_ValidateTemplates ==
    /\ ret.op = "none"
    /\ ret' = [NoReturn EXCEPT !.op = "ValidateTemplates",
                               !.err = ValidateTemplates(cfg)]
    /\ UNCHANGED <<serverVars, crw, hist, proc>>

NextSyntax ==
    \/ Call_ValidateTemplates
    \/ New_Preload

SpecSyntax == InitSyntax /\ [][NextSyntax]_vars

\* the syntax check rejected the configuration while parsing a template
RejectedAtParse == Contains(ret.err, <<"failed to parse: ">>)

\* New rejected the configuration while loading a template
FailedAtLoad ==
    srv.kind = "failed" /\ Contains(srv.err, <<"failed to load templates: ">>)

(* C30: on every configuration the syntax check and New agree at the parse *)
(* step: a configuration New builds a server from is not rejected by the   *)
(* syntax check for a template that does not parse, and a configuration    *)
(* whose templates New cannot load is not accepted by the syntax check.    *)
C30_SyntaxCheckAgreesWithNew ==
    (ret.op = "ValidateTemplates" /\ srv.kind # "none") =>
        /\ srv.kind = "preload" => ~RejectedAtParse
        /\ FailedAtLoad => ret.err # <<>>

=============================================================================
